---- MODULE Spec2Model ----
(***************************************************************************)
(* A model of the PDF section-ranking pipeline of src/main.py and          *)
(* src/process_pdfs.py.  Text is modelled as TLA+ strings, handled one     *)
(* character at a time with Len, SubSeq and \o, so that the regular        *)
(* expressions and the str methods of the source are computed, not         *)
(* assumed.  The non-ASCII bullet glyphs of the source's character classes *)
(* cannot be written in a module; "-" and "o" stand for the class.         *)
(***************************************************************************)
EXTENDS Integers, Sequences, FiniteSets, TLC

VARIABLES
    pc,               \* position of the operation under study
    s,                \* combine_lines: the argument
    combined,         \* combine_lines: the returned string
    data,             \* load_input_config: the parsed JSON object
    cfg,              \* load_input_config: what the call returned or raised
    page_count,       \* process_pdf: number of pages of doc
    page_i,           \* process_pdf: the loop variable i
    pp_all_headings,  \* process_pdf: the list all_headings of candidates
    outline,          \* process_pdf: the deduplicated outline
    lines,            \* extract_sections_from_pdf: full_text.splitlines()
    headings_list,    \* extract_sections_from_pdf: the document's headings
    sections,         \* extract_sections_from_pdf: the returned list
    pdf_filenames,    \* main: the filenames of the input JSON
    num_results,      \* main: --num_results
    file_i,           \* main: position of the for loop in pdf_filenames
    extracted_headings, \* main: what main_process_pdf returned last
    input_documents,  \* main
    all_sections,     \* main
    all_headings,     \* main: filename -> [text, page] pairs
    metadata,         \* main: the sections admitted to the index
    top_sections,     \* main: what query_faiss_index returned
    output            \* the output file: nothing, or the record written

txtVars == <<s, combined>>
cfgVars == <<data, cfg>>
outVars == <<page_count, page_i, pp_all_headings, outline>>
segVars == <<lines, headings_list, sections>>
mainVars == <<pdf_filenames, num_results, file_i, extracted_headings,
              input_documents, all_sections, all_headings, metadata,
              top_sections, output>>
vars == <<pc, txtVars, cfgVars, outVars, segVars, mainVars>>

\* the variables of an operation that is not under study keep these values
TxtIdle == s = "" /\ combined = ""
CfgIdle == data = <<>> /\ cfg = <<>>
OutIdle == page_count = 0 /\ page_i = 0 /\ pp_all_headings = <<>> /\ outline = <<>>
SegIdle == lines = <<>> /\ headings_list = <<>> /\ sections = <<>>
MainIdle ==
    /\ pdf_filenames = <<>> /\ num_results = 0 /\ file_i = 0
    /\ extracted_headings = <<>> /\ input_documents = <<>>
    /\ all_sections = <<>> /\ all_headings = <<>> /\ metadata = <<>>
    /\ top_sections = <<>> /\ output = <<>>

-----------------------------------------------------------------------------
(* Bounds of the model *)

\* longest argument of combine_lines that is enumerated
MaxLen == 6

-----------------------------------------------------------------------------
(* Characters and the str methods the source uses *)

At(t, i) == SubSeq(t, i, i)

\* \s of the re module, str.strip(): the whitespace that occurs in the model
IsSpace(c) == c \in {" ", "\t", "\n", "\r"}

\* [o\-] and the two non-ASCII glyphs of the class in combine_lines
IsBullet(c) == c \in {"-", "o"}

\* [.?!:,]
IsTerminal(c) == c \in {".", "?", "!", ":", ","}

RECURSIVE SkipSpace(_, _)
\* the position after the longest run of whitespace that starts at i
SkipSpace(t, i) ==
    IF i <= Len(t) /\ IsSpace(At(t, i)) THEN SkipSpace(t, i + 1) ELSE i

RECURSIVE SkipBullet(_, _)
\* the position after the longest run of bullet characters that starts at i
SkipBullet(t, i) ==
    IF i <= Len(t) /\ IsBullet(At(t, i)) THEN SkipBullet(t, i + 1) ELSE i

RECURSIVE SkipSpaceBack(_, _)
\* the position before the longest run of whitespace that ends at i
SkipSpaceBack(t, i) ==
    IF i >= 1 /\ IsSpace(At(t, i)) THEN SkipSpaceBack(t, i - 1) ELSE i

\* str.lstrip()
LStrip(t) == SubSeq(t, SkipSpace(t, 1), Len(t))

\* str.strip()
Strip(t) ==
    LET a == SkipSpace(t, 1)
        b == SkipSpaceBack(t, Len(t))
    IN  IF a > b THEN "" ELSE SubSeq(t, a, b)

RECURSIVE FindChar(_, _, _)
\* the first position >= i of character c in t, or 0
FindChar(t, c, i) ==
    IF i > Len(t) THEN 0
    ELSE IF At(t, i) = c THEN i
    ELSE FindChar(t, c, i + 1)

RECURSIVE SplitLines(_)
\* str.splitlines(): no empty last line after a final newline, [] for ""
SplitLines(t) ==
    LET n == FindChar(t, "\n", 1)
    IN  IF t = "" THEN <<>>
        ELSE IF n = 0 THEN <<t>>
        ELSE <<SubSeq(t, 1, n - 1)>> \o SplitLines(SubSeq(t, n + 1, Len(t)))

RECURSIVE Split(_)
\* str.split('\n'): always at least one piece
Split(t) ==
    LET n == FindChar(t, "\n", 1)
    IN  IF n = 0 THEN <<t>>
        ELSE <<SubSeq(t, 1, n - 1)>> \o Split(SubSeq(t, n + 1, Len(t)))

RECURSIVE Join(_, _)
\* sep.join(parts)
Join(parts, sep) ==
    IF parts = <<>> THEN ""
    ELSE IF Len(parts) = 1 THEN parts[1]
    ELSE parts[1] \o sep \o Join(Tail(parts), sep)

-----------------------------------------------------------------------------
(* main.py: combine_lines *)

RECURSIVE RemoveBullets(_, _)
\* re.sub(r'^[\s]*[bullets]+\s*', '', s, flags=re.MULTILINE), scanning from p:
\* a match starts only where ^ holds (start of the string or after "\n"),
\* takes whitespace (newlines included), one or more bullet characters and
\* whitespace again, and the scan goes on right after the match
RemoveBullets(t, p) ==
    IF p > Len(t) THEN ""
    ELSE LET q == SkipSpace(t, p)
             r == SkipBullet(t, q)
         IN  IF (p = 1 \/ At(t, p - 1) = "\n") /\ r > q
             THEN RemoveBullets(t, SkipSpace(t, r))
             ELSE At(t, p) \o RemoveBullets(t, p + 1)

\* [line.strip() for line in s.splitlines() if line.strip()]
StrippedLines(t) ==
    LET ls == SplitLines(t)
        keep == SelectSeq(ls, LAMBDA l : Strip(l) # "")
    IN  [i \in 1..Len(keep) |-> Strip(keep[i])]

\* re.search(r'[.?!:,]$', line)
EndsTerminal(line) == Len(line) > 0 /\ IsTerminal(At(line, Len(line)))

RECURSIVE CombineLoop(_, _, _)
\* the for loop of combine_lines, from the state (result, temp)
CombineLoop(ls, result, temp) ==
    IF ls = <<>> THEN [result |-> result, temp |-> temp]
    ELSE LET line == Head(ls)
         IN  IF EndsTerminal(line)
             THEN IF temp # ""
                  THEN CombineLoop(Tail(ls),
                                   Append(result, Strip(temp \o " " \o line)), "")
                  ELSE CombineLoop(Tail(ls), Append(result, line), "")
             ELSE IF temp # ""
                  THEN CombineLoop(Tail(ls), result, temp \o ", " \o line)
                  ELSE CombineLoop(Tail(ls), result, line)

\* a combine_lines that forgets the fragment left in temp at the end
combine_lines_noflush(t) ==
    Join(CombineLoop(StrippedLines(RemoveBullets(t, 1)), <<>>, "").result, " ")

combine_lines(t) ==
    LET st == CombineLoop(StrippedLines(RemoveBullets(t, 1)), <<>>, "")
        result == IF st.temp # "" THEN Append(st.result, Strip(st.temp))
                  ELSE st.result
    IN  Join(result, " ")

-----------------------------------------------------------------------------
(* Specification of combine_lines on every short string *)

Alphabet == {"a", "-", " ", "\n", "."}

RECURSIVE Strings(_)
\* the strings over Alphabet of length at most n
Strings(n) ==
    IF n = 0 THEN {""}
    ELSE LET shorter == Strings(n - 1)
         IN  shorter \cup {c \o t : c \in Alphabet, t \in shorter}

InitCombine ==
    /\ pc = "combine"
    /\ s \in Strings(MaxLen)
    /\ combined = ""
    /\ CfgIdle /\ OutIdle /\ SegIdle /\ MainIdle

CombineLines ==
    /\ pc = "combine"
    /\ combined' = combine_lines(s)
    /\ pc' = "combined"
    /\ UNCHANGED <<s, cfgVars, outVars, segVars, mainVars>>

NextCombine == CombineLines

SpecCombine == InitCombine /\ [][NextCombine]_vars

\* what the claim calls a line: one line of the argument with its leading
\* bullet marker removed and trimmed
CleanLine(l) ==
    LET t == LStrip(l)
    IN  Strip(SubSeq(t, SkipBullet(t, 1), Len(t)))

ExpectedLines(t) ==
    LET ls == SplitLines(t)
        cl == [i \in 1..Len(ls) |-> CleanLine(ls[i])]
    IN  SelectSeq(cl, LAMBDA l : l # "")

RECURSIVE FindSub(_, _, _)
\* the first position >= i at which x occurs in t, or 0
FindSub(t, x, i) ==
    IF i + Len(x) - 1 > Len(t) THEN 0
    ELSE IF SubSeq(t, i, i + Len(x) - 1) = x THEN i
    ELSE FindSub(t, x, i + 1)

RECURSIVE ContainsInOrder(_, _, _)
\* the strings of xs occur in t from position i on, one after the other
\* without overlap
ContainsInOrder(t, xs, i) ==
    IF xs = <<>> THEN TRUE
    ELSE LET n == FindSub(t, Head(xs), i)
         IN  n # 0 /\ ContainsInOrder(t, Tail(xs), n + Len(Head(xs)))

EndsWith(t, x) ==
    Len(x) <= Len(t) /\ SubSeq(t, Len(t) - Len(x) + 1, Len(t)) = x

RECURSIVE FinalRun(_)
\* the longest run of lines without terminal punctuation that ends ls
FinalRun(ls) ==
    IF ls = <<>> \/ EndsTerminal(ls[Len(ls)]) THEN <<>>
    ELSE Append(FinalRun(SubSeq(ls, 1, Len(ls) - 1)), ls[Len(ls)])

\* C8: combine_lines keeps every non-empty line of its argument (leading
\* bullet marker removed, trimmed) as a contiguous substring of the result,
\* in input order, and the final run of lines without terminal punctuation,
\* joined by ", ", ends the result.
C8_PreservesLines ==
    pc = "combined" =>
        LET ex == ExpectedLines(s)
            ls == StrippedLines(RemoveBullets(s, 1))
        IN  /\ ContainsInOrder(combined, ex, 1)
            /\ ContainsInOrder(combined, ls, 1)
            /\ EndsWith(combined, Join(FinalRun(ls), ", "))
            /\ (ex # <<>>) => (combined # "")

\* a result whose last two lines are an unterminated run, flushed at the end
C8_Witness ==
    /\ pc = "combined"
    /\ Len(ExpectedLines(s)) >= 3
    /\ ~EndsTerminal(ExpectedLines(s)[Len(ExpectedLines(s))])
    /\ ~EndsTerminal(ExpectedLines(s)[Len(ExpectedLines(s)) - 1])
    /\ EndsTerminal(ExpectedLines(s)[1])

-----------------------------------------------------------------------------
(* main.py: load_input_config *)

\* longest list of documents in the input JSON
MaxFiles == 2

\* the filenames that occur in the model
FileNames ==
    {"missing.pdf", "broken.pdf", "damaged.pdf", "plain.pdf", "summary.pdf",
     "n.pdf", "report.pdf", "guide.pdf"}

RECURSIVE SeqsUpTo(_, _)
\* the sequences over S of length at most n
SeqsUpTo(S, n) ==
    IF n = 0 THEN {<<>>}
    ELSE LET shorter == SeqsUpTo(S, n - 1)
         IN  shorter \cup {<<x>> \o q : x \in S, q \in shorter}

\* A JSON value under "persona" or "job_to_be_done": the key is absent, or
\* holds a string, or holds an object that has the inner key ("role",
\* "task") or not
Absent == [kind |-> "absent", has |-> FALSE, str |-> ""]
PyStr(x) == [kind |-> "str", has |-> FALSE, str |-> x]
PyDict(has, x) == [kind |-> "dict", has |-> has, str |-> x]

JsonValues(strs) ==
    {Absent, PyDict(FALSE, "")}
        \cup {PyStr(x) : x \in strs} \cup {PyDict(TRUE, x) : x \in strs}

\* Python truthiness of such a value: "" and {} are false
Truthy(v) ==
    CASE v.kind = "str" -> v.str # ""
      [] v.kind = "dict" -> v.has
      [] OTHER -> FALSE

\* data.get(key, {}).get(inner, "") or data.get(key, ""), lines 22 and 23:
\* .get on a str raises AttributeError
GetNested(v) ==
    LET outer == IF v.kind = "absent" THEN PyDict(FALSE, "") ELSE v
        first == IF outer.has THEN PyStr(outer.str) ELSE PyStr("")
        second == IF v.kind = "absent" THEN PyStr("") ELSE v
    IN  IF outer.kind = "str" THEN [raised |-> TRUE, value |-> Absent]
        ELSE [raised |-> FALSE,
              value |-> IF Truthy(first) THEN first ELSE second]

load_input_config(d) ==
    LET persona == GetNested(d.persona)
        job == GetNested(d.job_to_be_done)
    IN  IF persona.raised \/ job.raised
        THEN [raised |-> TRUE, persona |-> Absent, job |-> Absent,
              filenames |-> <<>>]
        ELSE [raised |-> FALSE, persona |-> persona.value, job |-> job.value,
              filenames |-> d.documents]

InitConfig ==
    /\ pc = "load"
    /\ data \in [persona : JsonValues({"", "Analyst"}),
                 job_to_be_done : JsonValues({"", "Summarise"}),
                 documents : SeqsUpTo(FileNames, MaxFiles)]
    /\ cfg = <<>>
    /\ TxtIdle /\ OutIdle /\ SegIdle /\ MainIdle

LoadInputConfig ==
    /\ pc = "load"
    /\ cfg' = load_input_config(data)
    /\ pc' = "loaded"
    /\ UNCHANGED <<data, txtVars, outVars, segVars, mainVars>>

NextConfig == LoadInputConfig

SpecConfig == InitConfig /\ [][NextConfig]_vars

\* the two shapes the input format allows: {inner: x} or the bare string x
GivenAs(v, x) == v = PyDict(TRUE, x) \/ v = PyStr(x)

\* C3: for persona given as {role: x} or as the bare string x, and
\* job_to_be_done given as {task: y} or as the bare string y,
\* load_input_config raises nothing and returns persona = x and job = y.
C3_AcceptsBothShapes ==
    pc = "loaded" =>
        \A x \in {"", "Analyst"}, y \in {"", "Summarise"} :
            (GivenAs(data.persona, x) /\ GivenAs(data.job_to_be_done, y))
                => /\ ~cfg.raised
                   /\ cfg.persona = PyStr(x)
                   /\ cfg.job = PyStr(y)

-----------------------------------------------------------------------------
(* process_pdfs.py: the candidate loop and the deduplication of process_pdf *)

\* most pages of a document whose candidates are enumerated
MaxPages == 2

\* most heading candidates of a document that are enumerated
MaxCands == 4

CandTexts == {"Intro", "Scope"}

\* the levels a markdown heading gets here; a font-size candidate is H2
MdLevels == {"H1", "H3"}

Key(h) == <<h.text, h.page>>

RECURSIVE DedupLoop(_, _, _)
\* lines 138-143: the loop over all_headings with its set seen
DedupLoop(hs, seen, acc) ==
    IF hs = <<>> THEN acc
    ELSE IF Key(Head(hs)) \notin seen
         THEN DedupLoop(Tail(hs), seen \cup {Key(Head(hs))}, Append(acc, Head(hs)))
         ELSE DedupLoop(Tail(hs), seen, acc)

RECURSIVE DedupByTextLoop(_, _, _)
DedupByTextLoop(hs, seen, acc) ==
    IF hs = <<>> THEN acc
    ELSE IF Head(hs).text \notin seen
         THEN DedupByTextLoop(Tail(hs), seen \cup {Head(hs).text},
                              Append(acc, Head(hs)))
         ELSE DedupByTextLoop(Tail(hs), seen, acc)

\* a deduplication whose key is the text alone
DedupByText(hs) == DedupByTextLoop(hs, {}, <<>>)

Dedup(hs) == DedupLoop(hs, {}, <<>>)

InitOutline ==
    /\ pc = "md"
    /\ page_count \in 1..MaxPages
    /\ page_i = 0
    /\ pp_all_headings = <<>>
    /\ outline = <<>>
    /\ TxtIdle /\ CfgIdle /\ SegIdle /\ MainIdle

\* lines 124-133: the page's markdown headings are appended
MarkdownHeadings ==
    /\ pc = "md"
    /\ page_i < page_count
    /\ \E md \in SeqsUpTo(MdLevels \X CandTexts, MaxCands - Len(pp_all_headings)) :
           pp_all_headings' = pp_all_headings \o
               [k \in 1..Len(md) |->
                   [level |-> md[k][1], text |-> md[k][2], page |-> page_i]]
    /\ pc' = "font"
    /\ UNCHANGED <<page_count, page_i, outline, txtVars, cfgVars, segVars, mainVars>>

\* lines 134-135: the rendering of the page raised, nothing is appended
MarkdownFailed ==
    /\ pc = "md"
    /\ page_i < page_count
    /\ pc' = "font"
    /\ UNCHANGED <<outVars, txtVars, cfgVars, segVars, mainVars>>

\* line 137: the page's font-size candidates are appended
FontHeadings ==
    /\ pc = "font"
    /\ \E ft \in SeqsUpTo(CandTexts, MaxCands - Len(pp_all_headings)) :
           pp_all_headings' = pp_all_headings \o
               [k \in 1..Len(ft) |->
                   [level |-> "H2", text |-> ft[k], page |-> page_i]]
    /\ page_i' = page_i + 1
    /\ pc' = "md"
    /\ UNCHANGED <<page_count, outline, txtVars, cfgVars, segVars, mainVars>>

\* lines 138-143
BuildOutline ==
    /\ pc = "md"
    /\ page_i = page_count
    /\ outline' = Dedup(pp_all_headings)
    /\ pc' = "outlined"
    /\ UNCHANGED <<page_count, page_i, pp_all_headings, txtVars, cfgVars, segVars, mainVars>>

NextOutline == MarkdownHeadings \/ MarkdownFailed \/ FontHeadings \/ BuildOutline

SpecOutline == InitOutline /\ [][NextOutline]_vars

\* the positions of hs that hold the first occurrence of their key
FirstOccurrences(hs) ==
    {i \in 1..Len(hs) : \A j \in 1..(i - 1) : Key(hs[j]) # Key(hs[i])}

\* C7: the outline is the subsequence of first occurrences of each
\* (text, page) key of the candidates: no key twice, every candidate key
\* once with the level of its first occurrence, pages ascending, discovery
\* order kept within a page, and deduplicating it again changes nothing.
C7_OutlineIsFirstOccurrences ==
    pc = "outlined" =>
        LET first == FirstOccurrences(pp_all_headings)
        IN  /\ Len(outline) = Cardinality(first)
            /\ \A a, b \in 1..Len(outline) :
                   a # b => Key(outline[a]) # Key(outline[b])
            /\ \A i \in first :
                   \E a \in 1..Len(outline) : outline[a] = pp_all_headings[i]
            /\ \A a, b \in 1..Len(outline) :
                   a < b =>
                       /\ outline[a].page <= outline[b].page
                       /\ \E i, j \in first :
                              /\ i < j
                              /\ outline[a] = pp_all_headings[i]
                              /\ outline[b] = pp_all_headings[j]
            /\ Dedup(outline) = outline

\* one text found by both passes on a page and again on the next page
C7_Witness ==
    /\ pc = "outlined"
    /\ Len(outline) < Len(pp_all_headings)
    /\ \E a, b \in 1..Len(outline) :
           /\ outline[a].text = outline[b].text
           /\ outline[a].page < outline[b].page

-----------------------------------------------------------------------------
(* main.py: extract_sections_from_pdf *)

\* longest heading list that is enumerated
MaxHeadings == 2

\* longest line stream that is enumerated
MaxDocLines == 4

\* heading texts are outputs of clean_text: trimmed and not empty
HeadingTexts == {"A", "B"}

HeadingPages == {0, 1}

\* the lines of a document: headings, a padded heading, body text, nothing
LineChoices == {"A", " A ", "B", " x", ""}

\* the keys of heading_page_map, line 72
HeadingKeys(hl) == {Strip(hl[k][1]) : k \in 1..Len(hl)}

\* heading_page_map[text], line 71: a later pair with the same stripped text
\* overwrites an earlier one
HeadingPage(hl, text) ==
    LET ks == {k \in 1..Len(hl) : Strip(hl[k][1]) = text}
        last == CHOOSE k \in ks : \A j \in ks : j <= k
    IN  hl[last][2]

RECURSIVE SectionLoop(_, _, _, _)
\* lines 81-93, from the state (sections, current_section); current holds the
\* open section, or nothing for None
SectionLoop(ls, hl, secs, current) ==
    IF ls = <<>> THEN [sections |-> secs, current |-> current]
    ELSE LET line == Head(ls)
             line_stripped == Strip(line)
         IN  IF line_stripped \in HeadingKeys(hl)
             THEN SectionLoop(Tail(ls), hl, secs \o current,
                              <<[title |-> line_stripped, content |-> "",
                                 page |-> HeadingPage(hl, line_stripped)]>>)
             ELSE IF current # <<>>
                  THEN SectionLoop(Tail(ls), hl, secs,
                                   <<[current[1] EXCEPT
                                        !.content = @ \o line \o "\n"]>>)
                  ELSE SectionLoop(Tail(ls), hl, secs, current)

\* a segmenter that does not close the section open at the end of the text
extract_sections_noclose(ls, hl) ==
    IF hl = <<>> THEN <<>> ELSE SectionLoop(ls, hl, <<>>, <<>>).sections

\* extract_sections_from_pdf, given the line stream of the document (line 77)
\* and headings_list (line 67)
extract_sections(ls, hl) ==
    IF hl = <<>> THEN <<>>
    ELSE LET st == SectionLoop(ls, hl, <<>>, <<>>)
         IN  st.sections \o st.current

InitSegment ==
    /\ pc = "segment"
    /\ lines \in SeqsUpTo(LineChoices, MaxDocLines)
    /\ headings_list \in SeqsUpTo(HeadingTexts \X HeadingPages, MaxHeadings)
    /\ sections = <<>>
    /\ TxtIdle /\ CfgIdle /\ OutIdle /\ MainIdle

Segment ==
    /\ pc = "segment"
    /\ sections' = extract_sections(lines, headings_list)
    /\ pc' = "segmented"
    /\ UNCHANGED <<lines, headings_list, txtVars, cfgVars, outVars, mainVars>>

NextSegment == Segment

SpecSegment == InitSegment /\ [][NextSegment]_vars

\* the positions of the lines whose stripped text equals a heading text
MatchingLines(ls, hl) ==
    {i \in 1..Len(ls) : \E k \in 1..Len(hl) : Strip(ls[i]) = hl[k][1]}

\* the k-th smallest element of a set of numbers
RECURSIVE Nth(_, _)
Nth(S, k) ==
    LET m == CHOOSE x \in S : \A y \in S : x <= y
    IN  IF k = 1 THEN m ELSE Nth(S \ {m}, k - 1)

RECURSIVE ConcatLines(_, _, _)
\* lines a..b of ls, each followed by a newline
ConcatLines(ls, a, b) ==
    IF a > b THEN "" ELSE ls[a] \o "\n" \o ConcatLines(ls, a + 1, b)

\* C1: for a non-empty heading list the sections are, in document order, one
\* per line whose stripped text equals a heading text; the title is that
\* stripped line and the content is every following line with a newline, up
\* to the next such line or the end.  Lines before the first such line are
\* in no section and an unmatched heading yields none.
C1_OneSectionPerHeadingLine ==
    (pc = "segmented" /\ headings_list # <<>>) =>
        LET m == MatchingLines(lines, headings_list)
            n == Cardinality(m)
            stop(k) == IF k = n THEN Len(lines) ELSE Nth(m, k + 1) - 1
        IN  /\ Len(sections) = n
            /\ \A k \in 1..n :
                   /\ sections[k].title = Strip(lines[Nth(m, k)])
                   /\ sections[k].content =
                          ConcatLines(lines, Nth(m, k) + 1, stop(k))

\* text before the first heading line, two sections, an unmatched heading
C1_Witness ==
    /\ pc = "segmented"
    /\ Len(sections) = 2
    /\ Strip(lines[1]) \notin HeadingTexts
    /\ sections[1].content # ""
    /\ \E k \in 1..Len(headings_list) :
           \A j \in 1..Len(sections) : sections[j].title # headings_list[k][1]

\* the headings of hl with text t, and the sections of secs with title t
HeadingsWithText(hl, t) == SelectSeq(hl, LAMBDA h : h[1] = t)
SectionsWithTitle(secs, t) == SelectSeq(secs, LAMBDA x : x.title = t)

\* C9: when one heading text is recorded on different pages, the k-th
\* section with that title carries the page of the k-th heading with that
\* text.
C9_SameTextDistinguishedByPage ==
    pc = "segmented" =>
        \A t \in HeadingTexts :
            LET hs == HeadingsWithText(headings_list, t)
                ss == SectionsWithTitle(sections, t)
            IN  (\E a, b \in 1..Len(hs) : hs[a][2] # hs[b][2]) =>
                    \A k \in 1..Len(ss) :
                        k <= Len(hs) => ss[k].page = hs[k][2]

-----------------------------------------------------------------------------
(* process_pdfs.py: the heading extractor *)

\* a heading candidate shorter than this is dropped
MinHeadingLen == 4

\* a span larger than this is a heading candidate
FontThreshold == 12

\* a span with this many words or more is no heading candidate
MaxHeadingWords == 15

LevelNames == <<"H1", "H2", "H3", "H4", "H5", "H6">>

StartsWith(t, x) == Len(x) <= Len(t) /\ SubSeq(t, 1, Len(x)) = x

RECURSIVE RemoveMarkup(_)
\* re.sub of the markup characters (asterisk, underscore, backquote) by ''
RemoveMarkup(t) ==
    IF t = "" THEN ""
    ELSE IF At(t, 1) \in {"*", "_"} THEN RemoveMarkup(SubSeq(t, 2, Len(t)))
    ELSE At(t, 1) \o RemoveMarkup(SubSeq(t, 2, Len(t)))

RECURSIVE CollapseSpace(_, _)
\* re.sub(r'\s+', ' ', text), scanning from i
CollapseSpace(t, i) ==
    IF i > Len(t) THEN ""
    ELSE IF IsSpace(At(t, i)) THEN " " \o CollapseSpace(t, SkipSpace(t, i))
    ELSE At(t, i) \o CollapseSpace(t, i + 1)

\* clean_text of process_pdfs.py; the replacements of the non-ASCII dash and
\* quotes act on characters that do not occur in the model
clean_text(t) ==
    IF t = "" THEN "" ELSE Strip(CollapseSpace(RemoveMarkup(t), 1))

RECURSIVE SkipHash(_, _)
SkipHash(t, i) ==
    IF i <= Len(t) /\ At(t, i) = "#" THEN SkipHash(t, i + 1) ELSE i

\* one line of extract_headings_from_markdown: re.match(r'^(#+)\s+(.*)') on
\* the stripped line, then the two filters; the headings found (none or one)
MarkdownHeading(line, page_num) ==
    LET st == Strip(line)
        h == SkipHash(st, 1)
        r == SkipSpace(st, h)
        level == h - 1
        text == clean_text(SubSeq(st, r, Len(st)))
    IN  IF h > 1 /\ r > h
        THEN IF Len(text) < MinHeadingLen \/ FindSub(text, "---", 1) # 0
             THEN <<>>
             ELSE <<[level |-> LevelNames[IF level < 6 THEN level ELSE 6],
                     text |-> text, page |-> page_num]>>
        ELSE <<>>

RECURSIVE FlatMap(_, _)
\* the concatenation of the sequences of a sequence
FlatMap(parts, i) ==
    IF i > Len(parts) THEN <<>> ELSE parts[i] \o FlatMap(parts, i + 1)

extract_headings_from_markdown(markdown_text, page_num) ==
    LET ls == Split(markdown_text)
    IN  FlatMap([k \in 1..Len(ls) |-> MarkdownHeading(ls[k], page_num)], 1)

RECURSIVE WordCount(_, _)
\* len(text.split()), counting from i
WordCount(t, i) ==
    LET a == SkipSpace(t, i)
    IN  IF a > Len(t) THEN 0
        ELSE LET RECURSIVE SkipWord(_)
                 SkipWord(j) ==
                     IF j <= Len(t) /\ ~IsSpace(At(t, j)) THEN SkipWord(j + 1)
                     ELSE j
             IN  1 + WordCount(t, SkipWord(a))

\* one span of extract_headings_from_font_sizes
FontHeading(span, page_num) ==
    LET text == clean_text(span.text)
    IN  IF text # "" /\ WordCount(text, 1) < MaxHeadingWords
           /\ span.size > FontThreshold
        THEN <<[level |-> "H2", text |-> text, page |-> page_num]>>
        ELSE <<>>

\* the spans of the page come in block, line and span order
extract_headings_from_font_sizes(spans, page_num) ==
    FlatMap([k \in 1..Len(spans) |-> FontHeading(spans[k], page_num)], 1)

\* one line of convert_bold_to_markdown_headings:
\* re.fullmatch(r"\*\*(.+?)\*\*", stripped) holds when the stripped line
\* starts and ends with ** around at least one character
BoldLine(line) ==
    LET st == Strip(line)
        content == Strip(SubSeq(st, 3, Len(st) - 2))
    IN  IF Len(st) >= 5 /\ StartsWith(st, "**") /\ EndsWith(st, "**")
        THEN IF EndsWith(content, ":")
             THEN "### " \o Strip(SubSeq(content, 1, Len(content) - 1))
             ELSE "## " \o content
        ELSE line

\* a promotion that keeps the colon and makes every bold line a level 2
\* heading
BoldLineAlwaysH2(line) ==
    LET st == Strip(line)
        content == Strip(SubSeq(st, 3, Len(st) - 2))
    IN  IF Len(st) >= 5 /\ StartsWith(st, "**") /\ EndsWith(st, "**")
        THEN "## " \o content
        ELSE line

convert_bold_always_h2(md_text) ==
    LET ls == Split(md_text)
    IN  Join([k \in 1..Len(ls) |-> BoldLineAlwaysH2(ls[k])], "\n")

convert_bold_to_markdown_headings(md_text) ==
    LET ls == Split(md_text)
    IN  Join([k \in 1..Len(ls) |-> BoldLine(ls[k])], "\n")

\* the candidates of page i (0-based) of process_pdf, lines 124-137: the
\* markdown headings unless the rendering raised, then the font-size ones
PageCandidates(page, i) ==
    (IF page.md_raises THEN <<>>
     ELSE extract_headings_from_markdown(
              convert_bold_to_markdown_headings(page.md), i))
        \o extract_headings_from_font_sizes(page.spans, i)

\* process_pdf: the outline of a document that opens; its title plays no part
\* in what main does with the result and is left out
process_pdf(filename, pages) ==
    [none |-> FALSE,
     outline |-> Dedup(FlatMap([k \in 1..Len(pages) |->
                                    PageCandidates(pages[k], k - 1)], 1)),
     filename |-> filename]

-----------------------------------------------------------------------------
(* The documents of the PDF folder *)

Span(text, size) == [text |-> text, size |-> size]

Page(md, md_raises, spans, text) ==
    [md |-> md, md_raises |-> md_raises, spans |-> spans, text |-> text]

\* one page: the bold line "Summary:" and three body lines, no large span
SummaryPages ==
    <<Page("**Summary:**\n\nFirst body line here.\nSecond body line here.\nThird body line.\n",
           FALSE,
           <<Span("Summary:", 11), Span("First body line here.", 11),
             Span("Second body line here.", 11), Span("Third body line.", 11)>>,
           "Summary:\nFirst body line here.\nSecond body line here.\nThird body line.\n")>>

\* one page of body text: no heading by either signal
PlainPages ==
    <<Page("Just a paragraph.\n", FALSE, <<Span("Just a paragraph.", 10)>>,
           "Just a paragraph.\n")>>

\* one heading found by both signals, a body too short for the index
NotePages ==
    <<Page("## Note\n\nok\n", FALSE, <<Span("Note", 14), Span("ok", 10)>>,
           "Note\nok\n")>>

\* a bold heading on page 0; on page 1 the rendering fails and the heading is
\* found by its font size, and its body reflows to fewer than 11 characters
ReportPages ==
    <<Page("**Overview**\n\nThe tool ranks sections.\n\n- fast\n- small\n", FALSE,
           <<Span("Overview", 11), Span("The tool ranks sections.", 11),
             Span("- fast", 11), Span("- small", 11)>>,
           "Overview\nThe tool ranks sections.\n- fast\n- small\n"),
      Page("", TRUE, <<Span("Conclusions", 14), Span("See above", 11)>>,
           "Conclusions\nSee above\n")>>

\* a markdown H1 that the font-size pass finds again, and a bold line with a
\* colon
GuidePages ==
    <<Page("# Setup Guide\n\nInstall the package first.\n\n**Notes:**\n\nnone\n", FALSE,
           <<Span("Setup Guide", 16), Span("Install the package first.", 11),
             Span("Notes:", 11), Span("none", 11)>>,
           "Setup Guide\nInstall the package first.\nNotes:\nnone\n")>>

DamagedPages ==
    <<Page("# Title Page\n", FALSE, <<Span("Title Page", 14)>>, "Title Page\n")>>

\* exists: os.path.exists(path); opens: process_pdf runs without an exception;
\* readable: extract_sections_from_pdf runs without an exception
PDF(f) ==
    CASE f = "missing.pdf" ->
             [exists |-> FALSE, opens |-> FALSE, readable |-> FALSE, pages |-> <<>>]
      [] f = "broken.pdf" ->
             [exists |-> TRUE, opens |-> FALSE, readable |-> FALSE, pages |-> <<>>]
      [] f = "damaged.pdf" ->
             [exists |-> TRUE, opens |-> TRUE, readable |-> FALSE, pages |-> DamagedPages]
      [] f = "plain.pdf" ->
             [exists |-> TRUE, opens |-> TRUE, readable |-> TRUE, pages |-> PlainPages]
      [] f = "summary.pdf" ->
             [exists |-> TRUE, opens |-> TRUE, readable |-> TRUE, pages |-> SummaryPages]
      [] f = "n.pdf" ->
             [exists |-> TRUE, opens |-> TRUE, readable |-> TRUE, pages |-> NotePages]
      [] f = "report.pdf" ->
             [exists |-> TRUE, opens |-> TRUE, readable |-> TRUE, pages |-> ReportPages]
      [] OTHER ->
             [exists |-> TRUE, opens |-> TRUE, readable |-> TRUE, pages |-> GuidePages]

-----------------------------------------------------------------------------
(* main.py: main *)

\* largest --num_results that is enumerated
MaxNumResults == 2

\* a section whose embedding text is shorter than this is not indexed
MinIndexedLen == 30

\* a result whose reflowed content is not longer than this is dropped
MinRefinedLen == 10

\* top_k of query_faiss_index
TopK == 25

\* the similarity scores the model gives to sections
Scores == {1, 2}

\* None, and the dict that process_pdf returns
NoResult == [none |-> TRUE, outline |-> <<>>, filename |-> ""]

\* what process_pdf makes of each document of the folder, None standing for
\* an exception
Processed ==
    [f \in FileNames |->
        IF PDF(f).opens THEN process_pdf(f, PDF(f).pages) ELSE NoResult]

\* main_process_pdf: the result of process_pdf, None when it raised
main_process_pdf(f) == Processed[f]

\* a test that also takes a result with an empty outline for nothing
IsFalsyOrNoHeadings(r) == r.none \/ r.outline = <<>>

\* "not extracted_headings", line 174: None is false, a dict with keys is true
IsFalsy(r) == r.none

\* line 178: the [text, page] pairs of the H1 and H2 entries of the outline
TopLevelHeadings(ol) ==
    LET top == SelectSeq(ol, LAMBDA h : h.level \in {"H1", "H2"})
    IN  [k \in 1..Len(top) |-> <<top[k].text, top[k].page>>]

\* lines 74-77: the pages' texts joined by a newline, split into lines
DocumentLines(pages) ==
    SplitLines(Join([k \in 1..Len(pages) |-> pages[k].text], "\n"))

\* all_headings[filename] = headings, line 179
SetHeadings(ah, f, hs) ==
    [g \in DOMAIN ah \cup {f} |-> IF g = f THEN hs ELSE ah[g]]

\* lines 182-185: the sections of the document, each with its document
DocumentSections(f, ah) ==
    LET secs == extract_sections(DocumentLines(PDF(f).pages), ah[f])
    IN  [k \in 1..Len(secs) |->
            [title |-> secs[k].title, content |-> secs[k].content,
             page |-> secs[k].page, document |-> f]]

\* line 107
EmbeddingText(sec) == sec.document \o " " \o sec.title \o " " \o sec.content

\* build_faiss_index: the metadata list; the index holds one vector for each
Admitted(secs) ==
    SelectSeq(secs, LAMBDA x : ~(Len(Strip(EmbeddingText(x))) < MinIndexedLen))

RECURSIVE BestFirst(_, _)
\* the 0-based labels of left ordered by descending score, ties by label
BestFirst(score, left) ==
    IF left = {} THEN <<>>
    ELSE LET best == CHOOSE i \in left :
                         \A j \in left :
                             \/ score[i] > score[j]
                             \/ (score[i] = score[j] /\ i <= j)
         IN  <<best>> \o BestFirst(score, left \ {best})

\* index.search(query, top_k) on an index of n vectors, score[i] being the
\* inner product of vector i with the query: top_k slots, the slots beyond n
\* filled with label -1 and a score below every real one
FaissSearch(score, n, top_k) ==
    LET order == BestFirst(score, 0..(n - 1))
        pad == (CHOOSE x \in Scores : \A y \in Scores : x <= y) - 1
    IN  [k \in 1..top_k |->
            IF k <= n THEN [label |-> order[k], score |-> score[order[k]]]
            ELSE [label |-> 0 - 1, score |-> pad]]

\* the position (1-based) that the Python index idx selects in a list of n
PyIndex(idx, n) == IF idx < 0 THEN n + idx + 1 ELSE idx + 1

RECURSIVE InsertSorted(_, _)
InsertSorted(sorted, r) ==
    IF sorted = <<>> THEN <<r>>
    ELSE IF Head(sorted).score < r.score THEN <<r>> \o sorted
    ELSE <<Head(sorted)>> \o InsertSorted(Tail(sorted), r)

RECURSIVE StableSortDesc(_, _)
\* results.sort(key=lambda x: -x[0]): stable
StableSortDesc(rs, acc) ==
    IF rs = <<>> THEN acc
    ELSE StableSortDesc(Tail(rs), InsertSorted(acc, Head(rs)))

\* query_faiss_index: ref is the position in metadata of the dict object
\* that the tuple's section is
query_faiss_index(md, score, top_k) ==
    LET found == FaissSearch(score, Len(md), top_k)
        results == [k \in 1..top_k |->
                       [score |-> found[k].score,
                        ref |-> PyIndex(found[k].label, Len(md)),
                        section |-> md[PyIndex(found[k].label, Len(md))]]]
    IN  StableSortDesc(results, <<>>)

\* xs[:n]
PySlice(xs, n) ==
    LET m == IF n < 0 THEN Len(xs) + n ELSE n
    IN  SubSeq(xs, 1, IF m < 0 THEN 0 ELSE IF m > Len(xs) THEN Len(xs) ELSE m)

\* line 205
Qualifies(r) == Len(combine_lines(r.section.content)) > MinRefinedLen

\* the two lists cut one entry later than num_results
OutputListsOneMore(top, n) ==
    LET kept == SelectSeq(top, Qualifies)
    IN  [extracted_sections |->
             PySlice([k \in 1..Len(kept) |->
                         [document |-> kept[k].section.document,
                          section_title |-> kept[k].section.title,
                          importance_rank |-> k,
                          page_number |-> kept[k].section.page + 1]], n + 1),
         subsection_analysis |->
             PySlice([k \in 1..Len(kept) |->
                         [document |-> kept[k].section.document,
                          refined_text |-> kept[k].section.title \o " - "
                              \o combine_lines(kept[k].section.content),
                          page_number |-> kept[k].section.page + 1]], n + 1)]

\* lines 205-229: filter, rank, build the two lists, cut them to num_results
OutputLists(top, n) ==
    LET kept == SelectSeq(top, Qualifies)
    IN  [extracted_sections |->
             PySlice([k \in 1..Len(kept) |->
                         [document |-> kept[k].section.document,
                          section_title |-> kept[k].section.title,
                          importance_rank |-> k,
                          page_number |-> kept[k].section.page + 1]], n),
         subsection_analysis |->
             PySlice([k \in 1..Len(kept) |->
                         [document |-> kept[k].section.document,
                          refined_text |-> kept[k].section.title \o " - "
                              \o combine_lines(kept[k].section.content),
                          page_number |-> kept[k].section.page + 1]], n)]

Init ==
    /\ pc = "loop"
    /\ pdf_filenames \in SeqsUpTo(FileNames, MaxFiles)
    /\ num_results \in 0..MaxNumResults
    /\ file_i = 1
    /\ extracted_headings = NoResult
    /\ input_documents = <<>>
    /\ all_sections = <<>>
    /\ all_headings = <<>>
    /\ metadata = <<>>
    /\ top_sections = <<>>
    /\ output = <<>>
    /\ TxtIdle /\ CfgIdle /\ OutIdle /\ SegIdle

InLoop == pc = "loop" /\ file_i <= Len(pdf_filenames)

idleVars == <<txtVars, cfgVars, outVars, segVars>>

\* a missing file stops the loop instead of being skipped
SkipMissingBreaks ==
    /\ InLoop
    /\ ~PDF(pdf_filenames[file_i]).exists
    /\ file_i' = Len(pdf_filenames) + 1
    /\ UNCHANGED <<pc, pdf_filenames, num_results, extracted_headings,
                   input_documents, all_sections, all_headings, metadata,
                   top_sections, output, idleVars>>

\* lines 169-171
SkipMissing ==
    /\ InLoop
    /\ ~PDF(pdf_filenames[file_i]).exists
    /\ file_i' = file_i + 1
    /\ UNCHANGED <<pc, pdf_filenames, num_results, extracted_headings,
                   input_documents, all_sections, all_headings, metadata,
                   top_sections, output, idleVars>>

\* lines 173-175: main returns
ReturnNoResult ==
    /\ InLoop
    /\ PDF(pdf_filenames[file_i]).exists
    /\ IsFalsy(main_process_pdf(pdf_filenames[file_i]))
    /\ extracted_headings' = main_process_pdf(pdf_filenames[file_i])
    /\ pc' = "returned_no_result"
    /\ UNCHANGED <<pdf_filenames, num_results, file_i, input_documents,
                   all_sections, all_headings, metadata, top_sections, output,
                   idleVars>>

\* lines 173-187
ProcessDocument ==
    /\ InLoop
    /\ LET f == pdf_filenames[file_i]
           r == main_process_pdf(f)
           ah == SetHeadings(all_headings, f, TopLevelHeadings(r.outline))
       IN  /\ PDF(f).exists
           /\ ~IsFalsy(r)
           /\ PDF(f).readable
           /\ extracted_headings' = r
           /\ all_headings' = ah
           /\ all_sections' = all_sections \o DocumentSections(f, ah)
           /\ input_documents' = Append(input_documents, f)
    /\ file_i' = file_i + 1
    /\ UNCHANGED <<pc, pdf_filenames, num_results, metadata, top_sections,
                   output, idleVars>>

\* lines 173-182, 188-189: extract_sections_from_pdf raised
SectioningFailed ==
    /\ InLoop
    /\ LET f == pdf_filenames[file_i]
           r == main_process_pdf(f)
       IN  /\ PDF(f).exists
           /\ ~IsFalsy(r)
           /\ ~PDF(f).readable
           /\ extracted_headings' = r
           /\ all_headings' = SetHeadings(all_headings, f, TopLevelHeadings(r.outline))
    /\ file_i' = file_i + 1
    /\ UNCHANGED <<pc, pdf_filenames, num_results, input_documents,
                   all_sections, metadata, top_sections, output, idleVars>>

LoopDone == pc = "loop" /\ file_i > Len(pdf_filenames)

\* lines 191-193
NoContent ==
    /\ LoopDone
    /\ all_sections = <<>>
    /\ pc' = "returned_no_content"
    /\ UNCHANGED <<mainVars, idleVars>>

\* lines 195-198 with an empty index
NothingToIndex ==
    /\ LoopDone
    /\ all_sections # <<>>
    /\ Admitted(all_sections) = <<>>
    /\ pc' = "returned_no_index"
    /\ UNCHANGED <<mainVars, idleVars>>

\* line 195
BuildIndex ==
    /\ LoopDone
    /\ all_sections # <<>>
    /\ Admitted(all_sections) # <<>>
    /\ metadata' = Admitted(all_sections)
    /\ pc' = "indexed"
    /\ UNCHANGED <<pdf_filenames, num_results, file_i, extracted_headings,
                   input_documents, all_sections, all_headings, top_sections,
                   output, idleVars>>

\* line 200: the scores are the embedding model's
Query ==
    /\ pc = "indexed"
    /\ \E score \in [0..(Len(metadata) - 1) -> Scores] :
           top_sections' = query_faiss_index(metadata, score, TopK)
    /\ pc' = "queried"
    /\ UNCHANGED <<pdf_filenames, num_results, file_i, extracted_headings,
                   input_documents, all_sections, all_headings, metadata,
                   output, idleVars>>

\* lines 202-233
WriteOutput ==
    /\ pc = "queried"
    /\ LET lists == OutputLists(top_sections, num_results)
       IN  output' = <<[input_documents |-> input_documents,
                        extracted_sections |-> lists.extracted_sections,
                        subsection_analysis |-> lists.subsection_analysis]>>
    /\ pc' = "written"
    /\ UNCHANGED <<pdf_filenames, num_results, file_i, extracted_headings,
                   input_documents, all_sections, all_headings, metadata,
                   top_sections, idleVars>>

Next ==
    \/ SkipMissing
    \/ ReturnNoResult
    \/ ProcessDocument
    \/ SectioningFailed
    \/ NoContent
    \/ NothingToIndex
    \/ BuildIndex
    \/ Query
    \/ WriteOutput

Spec == Init /\ [][Next]_vars

-----------------------------------------------------------------------------
(* Properties of main *)

Min(a, b) == IF a < b THEN a ELSE b

\* the positions of the results whose reflowed content is longer than 10
QualifyingPositions(top) ==
    {k \in 1..Len(top) : Len(combine_lines(top[k].section.content)) > 10}

\* C2: both output lists have length min(num_results, N), N being the number
\* of results whose reflowed content is longer than 10 characters; entry i of
\* both lists describes the i-th such result in score order (same document,
\* page_number = page + 1), and extracted_sections[i].importance_rank = i.
C2_ListsAlignedAndRanked ==
    pc = "written" =>
        LET q == QualifyingPositions(top_sections)
            m == Min(num_results, Cardinality(q))
            es == output[1].extracted_sections
            sa == output[1].subsection_analysis
        IN  /\ Len(es) = m
            /\ Len(sa) = m
            /\ \A i \in 1..m :
                   LET sec == top_sections[Nth(q, i)].section
                   IN  /\ es[i].document = sec.document
                       /\ es[i].section_title = sec.title
                       /\ es[i].page_number = sec.page + 1
                       /\ es[i].importance_rank = i
                       /\ sa[i].document = sec.document
                       /\ sa[i].page_number = sec.page + 1
                       /\ sa[i].refined_text =
                              sec.title \o " - " \o combine_lines(sec.content)

\* two entries written, a result with short content ranked above one of them
\* and dropped, and more qualifying results than num_results
C2_Witness ==
    /\ pc = "written"
    /\ num_results = 2
    /\ Len(output[1].extracted_sections) = 2
    /\ 1 \notin QualifyingPositions(top_sections)
    /\ Cardinality(QualifyingPositions(top_sections)) > 2
    /\ output[1].extracted_sections[1].document
           # output[1].extracted_sections[2].document

\* the filenames among the first n of the list that exist, in input order
ExistingAmong(n) ==
    SelectSeq(SubSeq(pdf_filenames, 1, n), LAMBDA f : PDF(f).exists)

\* the sections a document contributes when it is processed on its own
SectionsOf ==
    [f \in FileNames |->
        DocumentSections(f, SetHeadings(<<>>, f,
                             TopLevelHeadings(main_process_pdf(f).outline)))]

RECURSIVE SectionsOfAll(_)
SectionsOfAll(fs) ==
    IF fs = <<>> THEN <<>> ELSE SectionsOf[Head(fs)] \o SectionsOfAll(Tail(fs))

\* C5: when every listed file that exists is extracted and sectioned without
\* error, a missing file never stops the run: the documents are processed in
\* input order, input_documents is the subsequence of the listed filenames
\* that exist, no section belongs to a missing file, and the sections already
\* appended stay as they are while later documents are processed.
C5_MissingFilesAreSkipped ==
    (\A k \in 1..Len(pdf_filenames) :
         PDF(pdf_filenames[k]).exists =>
             (PDF(pdf_filenames[k]).opens /\ PDF(pdf_filenames[k]).readable))
    =>  /\ pc # "returned_no_result"
        /\ input_documents = ExistingAmong(file_i - 1)
        /\ (pc # "loop") => input_documents = ExistingAmong(Len(pdf_filenames))
        /\ all_sections = SectionsOfAll(input_documents)
        /\ \A k \in 1..Len(all_sections) : PDF(all_sections[k].document).exists

\* a missing file listed first, and a later document's sections indexed
C5_Witness ==
    /\ pc = "indexed"
    /\ Len(pdf_filenames) >= 2
    /\ ~PDF(pdf_filenames[1]).exists
    /\ input_documents # <<>>

\* the statement of C4 as claimed: a listed, existing document whose
\* extraction yields an empty outline stops the run there, nothing later is
\* processed, no index is built and no output is written.
C4_EmptyOutlineStopsRun ==
    \A k \in 1..Len(pdf_filenames) :
        (/\ PDF(pdf_filenames[k]).exists
         /\ ~main_process_pdf(pdf_filenames[k]).none
         /\ main_process_pdf(pdf_filenames[k]).outline = <<>>)
        =>  /\ file_i <= k
            /\ metadata = <<>>
            /\ output = <<>>

\* C4 (amended): a listed, existing document whose extraction fails, so that
\* main_process_pdf returns None, stops the run there: nothing later is
\* processed, no index is built and no output is written.  That is the only
\* return inside the loop: a document extracted with an empty outline is
\* recorded in input_documents and the loop goes on.
C4_NoResultStopsRun ==
    /\ \A k \in 1..Len(pdf_filenames) :
           (PDF(pdf_filenames[k]).exists /\ ~PDF(pdf_filenames[k]).opens)
           =>  /\ file_i <= k
               /\ pc \in {"loop", "returned_no_result"}
               /\ metadata = <<>>
               /\ top_sections = <<>>
               /\ output = <<>>
    /\ pc = "returned_no_result" =>
           /\ PDF(pdf_filenames[file_i]).exists
           /\ main_process_pdf(pdf_filenames[file_i]).none
    /\ \A k \in 1..(file_i - 1) :
           (/\ PDF(pdf_filenames[k]).exists
            /\ PDF(pdf_filenames[k]).readable
            /\ ~main_process_pdf(pdf_filenames[k]).none
            /\ main_process_pdf(pdf_filenames[k]).outline = <<>>)
           => \E j \in 1..Len(input_documents) :
                  input_documents[j] = pdf_filenames[k]

\* the run stopped at a document that fails, listed before a document that
\* could have been processed
C4_Witness ==
    /\ pc = "returned_no_result"
    /\ file_i < Len(pdf_filenames)
    /\ PDF(pdf_filenames[file_i + 1]).exists
    /\ PDF(pdf_filenames[file_i + 1]).opens
    /\ input_documents = <<>>

SummaryOutline == <<[level |-> "H3", text |-> "Summary", page |-> 0]>>

SummaryBody == "First body line here.\nSecond body line here.\nThird body line.\n"

\* the statement of C6 as claimed: for the one-page document with the bold
\* line "**Summary:**" and three body lines, one heading H3 "Summary" on page
\* 0, then one Section titled "Summary" holding the three body lines, which
\* is admitted to the index when its text has at least 30 characters.
C6_SummaryYieldsOneSection ==
    (pdf_filenames = <<"summary.pdf">> /\ file_i = 2) =>
        /\ extracted_headings.outline = SummaryOutline
        /\ Len(all_sections) = 1
        /\ all_sections[1].title = "Summary"
        /\ all_sections[1].content = SummaryBody
        /\ (pc # "loop" /\ Len(Strip(EmbeddingText(all_sections[1]))) >= 30)
               => metadata = all_sections

\* C6 (amended): for that document the extractor yields exactly one heading,
\* H3 "Summary" on page 0; main hands only H1 and H2 headings to the
\* segmenter, so the document gets an empty heading list, no Section and no
\* entry of the index, while it is recorded in input_documents.
C6_SummaryYieldsH3AndNoSection ==
    /\ (pc = "loop" /\ file_i > 1 /\ pdf_filenames[file_i - 1] = "summary.pdf")
           =>  /\ extracted_headings =
                      [none |-> FALSE, outline |-> SummaryOutline,
                       filename |-> "summary.pdf"]
               /\ all_headings["summary.pdf"] = <<>>
               /\ input_documents[Len(input_documents)] = "summary.pdf"
    /\ \A k \in 1..Len(all_sections) : all_sections[k].document # "summary.pdf"
    /\ \A k \in 1..Len(metadata) : metadata[k].document # "summary.pdf"
    /\ (pdf_filenames = <<"summary.pdf">> /\ pc # "loop")
           => (pc = "returned_no_content" /\ output = <<>>)

\* a run on the document alone has ended
C6_Witness ==
    /\ pdf_filenames = <<"summary.pdf">>
    /\ pc = "returned_no_content"
    /\ input_documents = <<"summary.pdf">>
    /\ extracted_headings.outline = SummaryOutline

\* C10: query_faiss_index returns at most as many results as there are
\* admitted sections, also when there are fewer than top_k of them, and each
\* result refers to a different admitted section.
C10_ResultsAreDistinctSections ==
    pc \in {"queried", "written"} =>
        /\ Len(top_sections) <= Len(metadata)
        /\ \A a, b \in 1..Len(top_sections) :
               a # b => top_sections[a].ref # top_sections[b].ref

====
